---------------------------- MODULE Spec2Model ----------------------------
(***************************************************************************)
(* Authentication token lifecycle of api-auth-integresocial.               *)
(*                                                                         *)
(* The repository holds two generations of the service:                    *)
(*   - the Express service (src/modules/auth, src/shared, src/config):     *)
(*     JWT access and refresh tokens signed with jose, the current         *)
(*     refresh token kept on the user row, revocation in Redis;            *)
(*   - the tenant-aware NestJS service (src/auth, users, tenants):         *)
(*     JWT access tokens, opaque refresh tokens whose SHA-256 digest is    *)
(*     kept in the userSession table.                                      *)
(* A deployment runs one of them; the variable app says which, and every   *)
(* behaviour of the model is a behaviour of one of the two services.       *)
(*                                                                         *)
(* Every await of a handler that reads or writes shared state (the user    *)
(* table, Redis) is a separate step of a request, so that concurrent       *)
(* requests interleave exactly where the event loop lets them.             *)
(***************************************************************************)
EXTENDS Integers, FiniteSets, Sequences, TLC

(***************************************************************************)
(* Bounds of the model.                                                    *)
(***************************************************************************)
MaxReqs == 2        \* requests in flight at the same time
MaxOps == 4         \* requests made by clients in one behaviour
MaxRetries == 7         \* failed attempts to reconnect in a row
MaxTicks == 1       \* clock advances in one behaviour

Reqs == 1..MaxReqs

(***************************************************************************)
(* Principals, secrets, tenants.                                           *)
(***************************************************************************)
Users == {"u1", "u2"}
UnknownEmail == "nobody"
Emails == Users \cup {UnknownEmail}
Passwords == {"p1", "p2"}
InitialPassword == "p1"
UserStatus == {"ACTIVE", "INACTIVE", "BLOCKED"}
NoUser == "-"
Tenants == {"t1", "t2"}
NoTenant == "-"

VARIABLES
  app,               \* "express" | "nest": the service that is deployed
  now,               \* wall clock, in seconds
  ticks,             \* number of clock advances so far
  ops,               \* number of requests accepted so far
  issues,            \* number of token pairs issued so far (source of jti / random bytes)
  reqs,              \* the refresh requests in flight: position, inputs, local variables
  loginOutcome,      \* the login completed last: what it was given, and its response
  answered,          \* the request other than a login answered last: what it was given, and its response
  nodeEnv,           \* Express: env.nodeEnv
  refreshExpiresIn,  \* Express: env.jwt.refreshExpiresIn
  user,              \* Express: prisma.user rows (password, refreshToken)
  redisKeys,         \* Express: keys held by Redis with their expiry instant
  isClientConnected, \* Express: RedisService.isClientConnected
  nestUser,          \* NestJS: prisma.user rows (passwordHash, status, lastLogin)
  userSession,       \* NestJS: prisma.userSession rows
  userTenant,        \* NestJS: prisma.userTenant rows (memberships)
  tenant,            \* NestJS: prisma.tenant rows (status, subdomain)
  held,              \* refresh tokens handed to clients, with the principal they were issued to
  heldAccess,        \* access tokens handed to clients
  exchanged,         \* history: refresh tokens exchanged successfully, with the successor returned
  loggedOut,         \* history: refresh tokens presented to a logout that completed
  blacklisted,       \* history: tokens for which blacklistToken returned without error
  pwStale,           \* history: refresh tokens obtained before a completed password change of their principal
  startup,           \* the process from its start: phase, process.env, and the configuration it serves with
  socket             \* Express: the socket of the Redis client: state, failed attempts in a row, delay in ms

serviceVars == <<app, now, ticks, ops, issues, reqs, loginOutcome, answered, nodeEnv, refreshExpiresIn,
                 user, redisKeys, isClientConnected, nestUser, userSession, userTenant, tenant, held,
                 heldAccess, exchanged, loggedOut, blacklisted, pwStale>>

vars == <<serviceVars, startup, socket>>

expressVars == <<nodeEnv, refreshExpiresIn, user, redisKeys, isClientConnected>>
nestVars == <<nestUser, userSession, userTenant, tenant>>
historyVars == <<exchanged, loggedOut, blacklisted, pwStale>>

(***************************************************************************)
(* Durations.  A configured duration is a number and a unit letter.        *)
(***************************************************************************)
Duration(v, u) == [value |-> v, unit |-> u]

\* jose's setExpirationTime(string): seconds of a "<n><unit>" string
Secs(d) ==
  CASE d.unit = "s" -> d.value
    [] d.unit = "m" -> d.value * 60
    [] d.unit = "h" -> d.value * 60 * 60
    [] d.unit = "d" -> d.value * 24 * 60 * 60
    [] d.unit = "w" -> d.value * 7 * 24 * 60 * 60
    [] d.unit = "y" -> d.value * 31557600

\* env.jwt.expiresIn (JWT_EXPIRES_IN, default "1h") and JWT_EXPIRATION of the NestJS service
expiresIn == Duration(1, "h")

\* the values of JWT_REFRESH_EXPIRES_IN the model deploys with: the default and a longer one
RefreshDurations == {Duration(7, "d"), Duration(30, "d")}

\* the values of JWT_REFRESH_EXPIRATION the NestJS service is deployed with: the same two and
\* "7days", which the pattern /^(\d+)([smhdwy])$/ of parseDuration does not match
NestRefreshDurations == RefreshDurations \cup {Duration(7, "days")}

\* validateConfig of the NestJS service, run by ConfigModule.forRoot at start-up: the schema
\* declares JWT_REFRESH_EXPIRATION as z.string().default('7d'), which every string satisfies
validateConfig(d) == d.unit \in STRING

\* TokenService.BLACKLIST_TTL, seconds
BLACKLIST_TTL == 60 * 60 * 24 * 7

\* steps by which the clock advances: an hour, a week
TickSteps == {60 * 60, 60 * 60 * 24 * 7}

(***************************************************************************)
(* Tokens.  A token is the record of what the compact string carries:      *)
(* fmt "jwt" (signed JWT) or "hex" (random bytes), the claims, and the key *)
(* it was signed with.                                                     *)
(***************************************************************************)
SecretKey == "JWT_SECRET"

\* the issuer and the audience JwtUtils signs with and asks for
Issuer == "api-projeto"
Audience == "api-clients"

NoToken ==
  [fmt |-> "none", type |-> "-", sub |-> NoUser, jti |-> 0, iat |-> 0, exp |-> 0, key |-> "-",
   iss |-> "-", aud |-> "-"]

\* JwtUtils.generateTokenId: a fresh id; the model draws it from the issue counter
generateTokenId(n, slot) == 2 * n + slot

generateAccessTokenExpiringAtRefresh(sub, n, t) ==
  [fmt |-> "jwt", type |-> "access", sub |-> sub, jti |-> generateTokenId(n, 1),
   iat |-> t, exp |-> t + Secs(refreshExpiresIn), key |-> SecretKey,
   iss |-> Issuer, aud |-> Audience]

\* JwtUtils.generateAccessToken
generateAccessToken(sub, n, t) ==
  [fmt |-> "jwt", type |-> "access", sub |-> sub, jti |-> generateTokenId(n, 1),
   iat |-> t, exp |-> t + Secs(expiresIn), key |-> SecretKey,
   iss |-> Issuer, aud |-> Audience]

\* JwtUtils.generateRefreshToken
generateRefreshToken(sub, n, t) ==
  [fmt |-> "jwt", type |-> "refresh", sub |-> sub, jti |-> generateTokenId(n, 2),
   iat |-> t, exp |-> t + Secs(refreshExpiresIn), key |-> SecretKey,
   iss |-> Issuer, aud |-> Audience]

JwtVerifyExpiryFirst(token) ==
  IF token.fmt = "jwt" /\ token.exp <= now
    THEN [valid |-> FALSE, expired |-> TRUE, userId |-> NoUser]
  ELSE IF token.fmt # "jwt" \/ token.key # SecretKey \/ token.iss # Issuer \/ token.aud # Audience
    THEN [valid |-> FALSE, expired |-> FALSE, userId |-> NoUser]
  ELSE [valid |-> TRUE, expired |-> FALSE, userId |-> token.sub]

\* JwtUtils.verifyToken (jose.jwtVerify): the signature first, then issuer and audience,
\* then the expiry; only JWTExpired is reported as expired
JwtVerify(token) ==
  IF token.fmt # "jwt" \/ token.key # SecretKey
    THEN [valid |-> FALSE, expired |-> FALSE, userId |-> NoUser]
  ELSE IF token.iss # Issuer \/ token.aud # Audience
    THEN [valid |-> FALSE, expired |-> FALSE, userId |-> NoUser]
  ELSE IF token.exp <= now
    THEN [valid |-> FALSE, expired |-> TRUE, userId |-> NoUser]
  ELSE [valid |-> TRUE, expired |-> FALSE, userId |-> token.sub]

(***************************************************************************)
(* Password hashing (bcryptjs / argon2): one-way, verified by recomputing. *)
(***************************************************************************)
HashPassword(p) == [alg |-> "pwhash", of |-> p]
ComparePassword(p, h) == h = HashPassword(p)

(***************************************************************************)
(* Responses.                                                              *)
(***************************************************************************)
NoResp == [status |-> 0, message |-> "-", accessToken |-> NoToken, refreshToken |-> NoToken]
Error(status, message) ==
  [status |-> status, message |-> message, accessToken |-> NoToken, refreshToken |-> NoToken]
Success(status, message, access, refresh) ==
  [status |-> status, message |-> message, accessToken |-> access, refreshToken |-> refresh]

\* UnauthorizedError (401), NotFoundError (404), ValidationError (422); an error that is no
\* AppError leaves ErrorHandler.handle as InternalServerError (500)
UnauthorizedError(message) == Error(401, message)
NotFoundError(resource) == Error(404, resource)
ValidationError(message) == Error(422, message)
InternalServerError == Error(500, "Ocorreu um erro interno no servidor.")

(***************************************************************************)
(* Requests.  A slot of reqs holds a refresh request between its awaits;   *)
(* when the handler returns or throws, the slot is released.               *)
(***************************************************************************)
Idle ==
  [op |-> "idle", pc |-> "idle", userId |-> NoUser, token |-> NoToken,
   accessToken |-> NoToken, refreshToken |-> NoToken, flags |-> {}]

\* a request is accepted into the first free slot
Free(r) == reqs[r].op = "idle" /\ \A q \in Reqs : q < r => reqs[q].op # "idle"

NoOutcome == [email |-> "-", flags |-> {"none"}, resp |-> NoResp]

Outcome(email, flags, resp) == [email |-> email, flags |-> flags, resp |-> resp]

\* no request other than a login has been answered yet
NoAnswer == [op |-> "none", userId |-> NoUser, tenantId |-> NoTenant, flags |-> {}, resp |-> NoResp]

\* a request other than a login: the handler, the principal and tenant it names, what
\* distinguishes the request, and the response
Answer(op, userId, tenantId, flags, resp) ==
  [op |-> op, userId |-> userId, tenantId |-> tenantId, flags |-> flags, resp |-> resp]

(***************************************************************************)
(* Express service: UserService.                                           *)
(***************************************************************************)
\* UserService.findByEmail / findById: the row, if there is one
findByEmail(email) == IF email \in Users THEN email ELSE NoUser

\* UserService.updateRefreshToken: the raw token (or null) goes on the user row
updateRefreshToken(userId, token) == [user EXCEPT ![userId].refreshToken = token]

\* UserService.updatePassword
updatePassword(userId, newPassword) ==
  [user EXCEPT ![userId].password = HashPassword(newPassword)]

(***************************************************************************)
(* Express service: Redis and TokenService.                                *)
(***************************************************************************)
isDevelopment == nodeEnv = "development"

\* the Redis key of a blacklisted token: the prefix and the raw token
BlacklistKey(token) == [prefix |-> "token:blacklist:", token |-> token]

\* RedisService.exists on a connected client: the key is there and has not expired
RedisExists(key) == \E e \in redisKeys : e.key = key /\ now < e.expireAt

\* a key set without EX stays until it is deleted
NoExpiry == 2 * 365 * 24 * 60 * 60

\* RedisService.set(key, value, expireInSeconds) on a connected client: with EX when
\* expireInSeconds is given and not 0, without otherwise
RedisSet(key, value, expireInSeconds) ==
  {e \in redisKeys : e.key # key}
  \cup {[key |-> key, value |-> value,
         expireAt |-> IF expireInSeconds # 0 THEN now + expireInSeconds ELSE NoExpiry]}

\* client.get on a connected client: the value of the key, null when it is not there
Null == "null"
RedisGet(key) ==
  IF RedisExists(key) THEN (CHOOSE e \in redisKeys : e.key = key).value ELSE Null

\* client.del on a connected client
RedisDel(key) == {e \in redisKeys : e.key # key}

isAvailableQuietly ==
  IF isClientConnected THEN "true" ELSE "false"

\* RedisService.isAvailable: "true", "false", or "throw" (Redis nao esta conectado)
isAvailable ==
  IF isClientConnected THEN "true"
  ELSE IF isDevelopment THEN "false"
  ELSE "throw"

\* what a RedisService operation hands back: value is what it returns ("undefined" for a
\* Promise<void>), thrown whether it rejects instead, keys the keys of Redis afterwards
Returned(value, keys) == [thrown |-> FALSE, value |-> value, keys |-> keys]
Thrown == [thrown |-> TRUE, value |-> "-", keys |-> redisKeys]
Undefined == "undefined"

\* RedisService.handleOperationError(operation, error)
handleOperationError(operation) ==
  IF isDevelopment
    THEN Returned(CASE operation = "get" -> Null
                    [] operation = "exists" -> "false"
                    [] OTHER -> Undefined, redisKeys)
    ELSE Thrown

\* RedisService.set / get / delete / exists; clientFails: the command to the server fails
redisService_set(key, value, expireInSeconds, clientFails) ==
  IF isAvailable = "throw" THEN Thrown
  ELSE IF isAvailable = "false" THEN Returned(Undefined, redisKeys)
  ELSE IF clientFails THEN handleOperationError("set")
  ELSE Returned(Undefined, RedisSet(key, value, expireInSeconds))

redisService_get(key, clientFails) ==
  IF isAvailable = "throw" THEN Thrown
  ELSE IF isAvailable = "false" THEN Returned(Null, redisKeys)
  ELSE IF clientFails THEN handleOperationError("get")
  ELSE Returned(RedisGet(key), redisKeys)

redisService_delete(key, clientFails) ==
  IF isAvailable = "throw" THEN Thrown
  ELSE IF isAvailable = "false" THEN Returned(Undefined, redisKeys)
  ELSE IF clientFails THEN handleOperationError("delete")
  ELSE Returned(Undefined, RedisDel(key))

redisService_exists(key, clientFails) ==
  IF isAvailable = "throw" THEN Thrown
  ELSE IF isAvailable = "false" THEN Returned("false", redisKeys)
  ELSE IF clientFails THEN handleOperationError("exists")
  ELSE Returned(IF RedisExists(key) THEN "true" ELSE "false", redisKeys)

\* TokenService.blacklistToken, with the connection as it is when the call runs:
\* "ok" (returned) or "throw"
blacklistTokenOutcomeOn(connected) ==
  IF connected THEN "ok"
  ELSE IF isDevelopment THEN "ok"
  ELSE "throw"

\* TokenService.blacklistToken: the keys of Redis afterwards
blacklistTokenKeysOn(connected, token) ==
  IF connected THEN RedisSet(BlacklistKey(token), "true", BLACKLIST_TTL) ELSE redisKeys

\* TokenService.blacklistToken: "ok" (returned) or "throw"
blacklistTokenOutcome == blacklistTokenOutcomeOn(isClientConnected)

\* TokenService.blacklistToken: the keys of Redis afterwards
blacklistTokenKeys(token) == blacklistTokenKeysOn(isClientConnected, token)

isTokenBlacklistedFailingOpen(token) ==
  IF isClientConnected THEN (IF RedisExists(BlacklistKey(token)) THEN "true" ELSE "false")
  ELSE "false"

\* TokenService.isTokenBlacklisted: TRUE, FALSE or "throw"
isTokenBlacklisted(token) ==
  IF isClientConnected THEN (IF RedisExists(BlacklistKey(token)) THEN "true" ELSE "false")
  ELSE IF isDevelopment THEN "false"
  ELSE "throw"

\* TokenService.verifyToken: blacklist check, then JwtUtils.verifyToken; any throw is "invalid"
verifyToken(token) ==
  IF isTokenBlacklisted(token) = "false" THEN JwtVerify(token)
  ELSE [valid |-> FALSE, expired |-> FALSE, userId |-> NoUser]

StoredTokenAlwaysMatches(stored, presented) == TRUE

\* AuthService.refreshToken: the comparison of the presented token with the stored one
StoredTokenMatches(stored, presented) == stored = presented

authenticateWhileSessionStored(token) ==
  LET tokenResult == verifyToken(token)
  IN IF /\ tokenResult.valid /\ token.type = "access" /\ tokenResult.userId \in Users
        /\ user[tokenResult.userId].refreshToken # NoToken
       THEN tokenResult.userId ELSE NoUser

authenticateAnyType(token) ==
  LET tokenResult == verifyToken(token)
  IN IF tokenResult.valid /\ tokenResult.userId \in Users THEN tokenResult.userId ELSE NoUser

\* AuthMiddleware.authenticate: the principal a bearer token authenticates, or NoUser
authenticate(token) ==
  LET tokenResult == verifyToken(token)
  IN IF tokenResult.valid /\ token.type = "access" /\ tokenResult.userId \in Users
       THEN tokenResult.userId ELSE NoUser

\* what is true of a token when it is verified: how it was signed, its claims, its expiry,
\* and what the revocation check answers
TokenFlags(token) ==
  (IF token.fmt # "jwt" \/ token.key # SecretKey THEN {"badSignature"} ELSE {})
  \cup (IF token.iss # Issuer THEN {"badIssuer"} ELSE {})
  \cup (IF token.aud # Audience THEN {"badAudience"} ELSE {})
  \cup (IF token.exp <= now THEN {"expired"} ELSE {})
  \cup (IF isTokenBlacklisted(token) = "true" THEN {"revoked"} ELSE {})
  \cup (IF isTokenBlacklisted(token) = "throw" THEN {"unavailable"} ELSE {})

\* a call of TokenService.verifyToken, with the result of JwtUtils.verifyToken beside it
Verify(token) ==
  /\ app = "express"
  /\ ops < MaxOps
  /\ ops' = ops + 1
  /\ answered' = Answer("verify", NoUser, NoTenant, TokenFlags(token),
                        [jwtUtils |-> JwtVerify(token), tokenService |-> verifyToken(token)])
  /\ UNCHANGED <<app, startup, socket, now, ticks, issues, reqs, loginOutcome, expressVars, nestVars, held,
                 heldAccess, historyVars>>

\* what is true of a bearer token when the middleware runs: TokenFlags, whether Redis holds
\* a revocation entry for it (connected or not), whether the revocation check is skipped
\* (development without a Redis connection), its type, and whether its subject has a row
AuthenticateFlags(token) ==
  TokenFlags(token)
  \cup (IF RedisExists(BlacklistKey(token)) THEN {"listed"} ELSE {})
  \cup (IF isDevelopment /\ ~isClientConnected THEN {"unchecked"} ELSE {})
  \cup (IF token.type # "access" THEN {"notAccess"} ELSE {})
  \cup (IF token.sub \notin Users THEN {"noSubject"} ELSE {})

\* a request through AuthMiddleware.authenticate: userId is the principal set as req.user,
\* NoUser when the middleware ends the request with an error
Authenticate(token) ==
  /\ app = "express"
  /\ ops < MaxOps
  /\ ops' = ops + 1
  /\ answered' = Answer("authenticate", authenticate(token), NoTenant, AuthenticateFlags(token),
                        IF authenticate(token) # NoUser
                          THEN Success(200, "next", token, NoToken)
                          ELSE UnauthorizedError("Token de autenticacao invalido"))
  /\ UNCHANGED <<app, startup, socket, now, ticks, issues, reqs, loginOutcome, expressVars, nestVars, held,
                 heldAccess, historyVars>>

\* what a refresh request knows about the history of its token when it arrives
RefreshFlags(token) ==
  (IF \E x \in exchanged : x.old = token THEN {"exchanged"} ELSE {})
  \cup (IF token \in loggedOut THEN {"loggedOut"} ELSE {})
  \cup (IF token \in blacklisted THEN {"blacklisted"} ELSE {})
  \cup (IF token \in pwStale THEN {"pwStale"} ELSE {})
  \cup (IF \E q \in Reqs : reqs[q].op = "refresh" /\ reqs[q].token = token
          THEN {"concurrent"} ELSE {})

\* the refresh tokens a client may present: those handed out
Presentable == {h.token : h \in held}

(***************************************************************************)
(* Express service: AuthService.login.                                     *)
(***************************************************************************)
\* AuthService.login up to token generation: findByEmail, validatePassword;
\* the error it throws, or NoResp when the credentials pass
loginCheck(email, password) ==
  IF findByEmail(email) = NoUser THEN UnauthorizedError("Credenciais invalidas")
  ELSE IF ~ComparePassword(password, user[findByEmail(email)].password)
    THEN UnauthorizedError("Credenciais invalidas")
  ELSE NoResp

\* what a login request was given, for the properties
LoginFlags(email, password) ==
  (IF findByEmail(email) = NoUser THEN {"unknownEmail"} ELSE {})
  \cup (IF findByEmail(email) # NoUser /\ ~ComparePassword(password, user[email].password)
          THEN {"wrongPassword"} ELSE {})

\* AuthService.login
Login(email, password) ==
  /\ app = "express"
  /\ ops < MaxOps
  /\ ops' = ops + 1
  /\ IF loginCheck(email, password) # NoResp
       THEN /\ loginOutcome' = Outcome(email, LoginFlags(email, password), loginCheck(email, password))
            /\ UNCHANGED <<issues, user, held, heldAccess>>
       ELSE /\ issues' = issues + 1
            /\ LET u == findByEmail(email)
                   accessToken == generateAccessToken(u, issues + 1, now)
                   refreshToken == generateRefreshToken(u, issues + 1, now)
               IN /\ user' = updateRefreshToken(u, refreshToken)
                  /\ held' = held \cup {[token |-> refreshToken, user |-> u]}
                  /\ heldAccess' = heldAccess \cup {accessToken}
                  /\ loginOutcome' = Outcome(email, LoginFlags(email, password), Success(200, "Login realizado com sucesso",
                                                         accessToken, refreshToken))
  /\ UNCHANGED <<app, startup, socket, now, ticks, reqs, answered, nodeEnv, refreshExpiresIn, redisKeys,
                 isClientConnected, nestVars, historyVars>>

(***************************************************************************)
(* Express service: AuthService.refreshToken.                              *)
(***************************************************************************)
\* refreshToken up to findById: the error it throws on the result of verifyToken, or NoResp
refreshTokenCheck(token) ==
  IF ~verifyToken(token).valid \/ verifyToken(token).userId = NoUser
    THEN UnauthorizedError("Token invalido ou expirado")
  ELSE NoResp

\* why verifyToken does not accept a token, for the properties: the revocation check could
\* not be made, the token is on the blacklist, the token has expired
VerifyFlags(token) ==
  (IF isTokenBlacklisted(token) = "throw" THEN {"unavailable"} ELSE {})
  \cup (IF isTokenBlacklisted(token) = "true" THEN {"revoked"} ELSE {})
  \cup (IF JwtVerify(token).expired THEN {"expired"} ELSE {})

\* refreshToken: verifyToken(data.refreshToken) does not accept the token
RefreshRejected(token) ==
  /\ app = "express"
  /\ ops < MaxOps
  /\ ops' = ops + 1
  /\ refreshTokenCheck(token) # NoResp
  /\ answered' = Answer("refresh", NoUser, NoTenant, VerifyFlags(token), refreshTokenCheck(token))
  /\ UNCHANGED <<app, startup, socket, now, ticks, issues, reqs, loginOutcome, expressVars, nestVars, held,
                 heldAccess, historyVars>>

\* refreshToken: tokenService.verifyToken(data.refreshToken) accepts the token
RefreshToken(r, token) ==
  /\ app = "express"
  /\ ops < MaxOps
  /\ ops' = ops + 1
  /\ Free(r)
  /\ refreshTokenCheck(token) = NoResp
  /\ reqs' = [reqs EXCEPT ![r] =
                [Idle EXCEPT !.op = "refresh", !.pc = "findUser", !.token = token,
                             !.userId = verifyToken(token).userId,
                             !.flags = RefreshFlags(token)]]
  /\ UNCHANGED <<app, startup, socket, now, ticks, issues, loginOutcome, answered, expressVars, nestVars, held,
                 heldAccess, historyVars>>

\* refreshToken: findById, the comparison with the stored token, token generation
RefreshFindUser(r) ==
  /\ reqs[r].op = "refresh" /\ reqs[r].pc = "findUser"
  /\ LET u == reqs[r].userId
     IN IF u \notin Users
          THEN /\ reqs' = [reqs EXCEPT ![r] = Idle]
               /\ answered' = Answer("refresh", u, NoTenant, {"noSubject"}, NotFoundError("Usuario"))
               /\ UNCHANGED issues
        ELSE IF ~StoredTokenMatches(user[u].refreshToken, reqs[r].token)
          THEN /\ reqs' = [reqs EXCEPT ![r] = Idle]
               /\ answered' = Answer("refresh", u, NoTenant, {"mismatch"}, UnauthorizedError("Token invalido"))
               /\ UNCHANGED issues
          ELSE /\ issues' = issues + 1
               /\ UNCHANGED answered
               /\ reqs' = [reqs EXCEPT ![r] =
                             [@ EXCEPT !.pc = "update",
                                       !.accessToken = generateAccessToken(u, issues + 1, now),
                                       !.refreshToken = generateRefreshToken(u, issues + 1, now)]]
  /\ UNCHANGED <<ops, app, startup, socket, now, ticks, loginOutcome, expressVars, nestVars, held, heldAccess, historyVars>>

\* refreshToken: userService.updateRefreshToken(user.id, refreshToken)
RefreshUpdate(r) ==
  /\ reqs[r].op = "refresh" /\ reqs[r].pc = "update"
  /\ user' = updateRefreshToken(reqs[r].userId, reqs[r].refreshToken)
  /\ reqs' = [reqs EXCEPT ![r].pc = "blacklist"]
  /\ UNCHANGED <<ops, app, startup, socket, now, ticks, issues, loginOutcome, answered, nodeEnv, refreshExpiresIn, redisKeys,
                 isClientConnected, nestVars, held, heldAccess, historyVars>>

\* refreshToken: tokenService.blacklistToken(data.refreshToken), then the response
RefreshBlacklist(r) ==
  /\ reqs[r].op = "refresh" /\ reqs[r].pc = "blacklist"
  /\ IF blacklistTokenOutcome = "throw"
       THEN /\ answered' = Answer("refresh", reqs[r].userId, NoTenant, {"blacklistFailed"}, InternalServerError)
            /\ UNCHANGED <<redisKeys, held, heldAccess, historyVars>>
       ELSE /\ answered' = Answer("refresh", reqs[r].userId, NoTenant, {},
                                  Success(200, "Token atualizado com sucesso",
                                          reqs[r].accessToken, reqs[r].refreshToken))
            /\ redisKeys' = blacklistTokenKeys(reqs[r].token)
            /\ blacklisted' = blacklisted \cup {reqs[r].token}
            /\ exchanged' = exchanged \cup {[old |-> reqs[r].token, new |-> reqs[r].refreshToken,
                                             flags |-> reqs[r].flags]}
            /\ held' = held \cup {[token |-> reqs[r].refreshToken, user |-> reqs[r].userId]}
            /\ heldAccess' = heldAccess \cup {reqs[r].accessToken}
            /\ UNCHANGED <<loggedOut, pwStale>>
  /\ reqs' = [reqs EXCEPT ![r] = Idle]
  /\ UNCHANGED <<ops, app, startup, socket, now, ticks, issues, loginOutcome, nodeEnv, refreshExpiresIn, user,
                 isClientConnected, nestVars>>

(***************************************************************************)
(* Express service: AuthService.logout, behind AuthMiddleware.authenticate.*)
(***************************************************************************)
\* what a logout was given, for the properties: a token a completed logout was given before
LogoutFlags(token) == IF token \in loggedOut THEN {"again"} ELSE {}

\* AuthService.logout(userId, refreshToken): blacklistToken, then updateRefreshToken(userId, null).
\* The Redis connection may end between the middleware's check and blacklistToken
\* (connected is what blacklistToken finds).
Logout(userId, token) ==
  /\ app = "express"
  /\ ops < MaxOps
  /\ ops' = ops + 1
  /\ \E bearer \in heldAccess : authenticate(bearer) = userId
  /\ \E connected \in {isClientConnected, FALSE} :
       /\ isClientConnected' = connected
       /\ IF blacklistTokenOutcomeOn(connected) = "throw"
            THEN /\ answered' = Answer("logout", userId, NoTenant,
                                       LogoutFlags(token) \cup {"blacklistFailed"}, InternalServerError)
                 /\ UNCHANGED <<redisKeys, blacklisted, user, loggedOut>>
            ELSE /\ answered' = Answer("logout", userId, NoTenant, LogoutFlags(token),
                                       Success(200, "Logout realizado com sucesso", NoToken, NoToken))
                 /\ redisKeys' = blacklistTokenKeysOn(connected, token)
                 /\ blacklisted' = blacklisted \cup {token}
                 /\ user' = updateRefreshToken(userId, NoToken)
                 /\ loggedOut' = loggedOut \cup {token}
  /\ UNCHANGED <<app, startup, socket, now, ticks, issues, reqs, loginOutcome, nodeEnv, refreshExpiresIn,
                 nestVars, held, heldAccess, exchanged, pwStale>>

(***************************************************************************)
(* Express service: AuthService.changePassword, behind authenticate.       *)
(***************************************************************************)
\* the refresh tokens a principal has obtained so far
ObtainedBy(u) == {h.token : h \in {x \in held : x.user = u}}

\* AuthService.changePassword up to updatePassword: the error it throws, or NoResp
changePasswordCheck(userId, currentPassword, newPassword) ==
  IF ~ComparePassword(currentPassword, user[userId].password)
    THEN UnauthorizedError("Senha atual incorreta")
  ELSE IF currentPassword = newPassword
    THEN ValidationError("Nova senha deve ser diferente da atual")
  ELSE NoResp

\* what a password change was given, for the properties: a current password that is not the
\* principal's, a new password that is the principal's current one
ChangePasswordFlags(currentPassword, newPassword, hash) ==
  (IF ~ComparePassword(currentPassword, hash) THEN {"wrongCurrent"} ELSE {})
  \cup (IF ComparePassword(newPassword, hash) THEN {"sameAsCurrent"} ELSE {})

\* AuthService.changePassword(userId, data): the checks, updatePassword, and for a
\* stored refresh token blacklistToken and updateRefreshToken(userId, null).
\* The Redis connection may end between the middleware's check and blacklistToken
\* (connected is what blacklistToken finds).
ChangePassword(userId, currentPassword, newPassword) ==
  /\ app = "express"
  /\ ops < MaxOps
  /\ ops' = ops + 1
  /\ \E bearer \in heldAccess : authenticate(bearer) = userId
  /\ LET stored == user[userId].refreshToken
         flags == ChangePasswordFlags(currentPassword, newPassword, user[userId].password)
         done == Success(200, "Senha alterada com sucesso", NoToken, NoToken)
     IN IF changePasswordCheck(userId, currentPassword, newPassword) # NoResp
          THEN /\ answered' = Answer("changePassword", userId, NoTenant, flags,
                                     changePasswordCheck(userId, currentPassword, newPassword))
               /\ UNCHANGED <<user, redisKeys, isClientConnected, blacklisted, pwStale>>
        ELSE IF stored = NoToken
          THEN /\ user' = updatePassword(userId, newPassword)
               /\ pwStale' = pwStale \cup ObtainedBy(userId)
               /\ answered' = Answer("changePassword", userId, NoTenant, flags, done)
               /\ UNCHANGED <<redisKeys, isClientConnected, blacklisted>>
        ELSE \E connected \in {isClientConnected, FALSE} :
               /\ isClientConnected' = connected
               /\ IF blacklistTokenOutcomeOn(connected) = "throw"
                    THEN /\ user' = updatePassword(userId, newPassword)
                         /\ answered' = Answer("changePassword", userId, NoTenant,
                                               flags \cup {"blacklistFailed"}, InternalServerError)
                         /\ UNCHANGED <<redisKeys, blacklisted, pwStale>>
                    ELSE /\ user' = [updatePassword(userId, newPassword)
                                       EXCEPT ![userId].refreshToken = NoToken]
                         /\ redisKeys' = blacklistTokenKeysOn(connected, stored)
                         /\ blacklisted' = blacklisted \cup {stored}
                         /\ pwStale' = pwStale \cup ObtainedBy(userId)
                         /\ answered' = Answer("changePassword", userId, NoTenant, flags, done)
  /\ UNCHANGED <<app, startup, socket, now, ticks, issues, reqs, loginOutcome, nodeEnv, refreshExpiresIn,
                 nestVars, held, heldAccess, exchanged, loggedOut>>

(***************************************************************************)
(* NestJS service: configuration, tokens, sessions.                        *)
(***************************************************************************)
\* AuthService.parseDuration, in seconds (the code counts milliseconds; every
\* multiplier is a multiple of 1000): seven days for a string it cannot parse
parseDuration(d) ==
  IF d.unit \notin {"s", "m", "h", "d", "w", "y"} THEN 7 * 24 * 60 * 60
  ELSE d.value * (CASE d.unit = "s" -> 1
                    [] d.unit = "m" -> 60
                    [] d.unit = "h" -> 60 * 60
                    [] d.unit = "d" -> 24 * 60 * 60
                    [] d.unit = "w" -> 7 * 24 * 60 * 60
                    [] d.unit = "y" -> 365 * 24 * 60 * 60)

\* jwtService.sign({ sub }) under jwtConfig: secret JWT_SECRET, expiresIn JWT_EXPIRATION
jwtSign(sub, t) ==
  [fmt |-> "jwt", type |-> "-", sub |-> sub, jti |-> 0,
   iat |-> t, exp |-> t + Secs(expiresIn), key |-> SecretKey, iss |-> "-", aud |-> "-"]

\* AuthService.generateRefreshToken (NestJS): crypto.randomBytes(40).toString('hex')
randomBytes(n) ==
  [fmt |-> "hex", type |-> "-", sub |-> NoUser, jti |-> n, iat |-> 0, exp |-> 0, key |-> "-",
   iss |-> "-", aud |-> "-"]

\* crypto.createHash('sha256').update(refreshToken).digest('hex')
Sha256(token) == [alg |-> "sha256", of |-> token]

\* AuthService.createSession: the userSession row
createSession(userId, refreshToken) ==
  [userId |-> userId, tokenHash |-> Sha256(refreshToken),
   expiresAt |-> now + parseDuration(refreshExpiresIn)]

\* AuthService.refreshTokens: findFirst({ tokenHash, expiresAt: { gt: new Date() } })
findSession(refreshToken) ==
  {x \in userSession : x.tokenHash = Sha256(refreshToken) /\ x.expiresAt > now}

\* JwtAuthGuard with JwtStrategy.validate: the principal a bearer token authenticates, or NoUser
nestAuthenticate(token) ==
  IF /\ token.fmt = "jwt" /\ token.key = SecretKey /\ now < token.exp
     /\ token.sub \in Users /\ nestUser[token.sub].status = "ACTIVE"
    THEN token.sub ELSE NoUser

\* HttpException responses of the NestJS service
UnauthorizedException(message) == Error(401, message)
ForbiddenException(message) == Error(403, message)
ConflictException(message) == Error(409, message)

(***************************************************************************)
(* NestJS service: AuthService.validateUser and AuthService.login.         *)
(***************************************************************************)
\* AuthService.validateUser: the exception it throws, or NoResp when it returns the user
validateUser(email, password) ==
  IF findByEmail(email) = NoUser THEN UnauthorizedException("Credenciais invalidas")
  ELSE IF nestUser[email].status # "ACTIVE"
    THEN UnauthorizedException("Conta de usuario inativa ou bloqueada")
  ELSE IF ~ComparePassword(password, nestUser[email].passwordHash)
    THEN UnauthorizedException("Credenciais invalidas")
  ELSE NoResp

\* prisma.userTenant.findMany({ where: { userId } })
userTenants(userId) == {m \in userTenant : m.userId = userId}

\* AuthService.login up to token generation: the exception it throws, or NoResp
nestLoginCheck(email, password) ==
  IF validateUser(email, password) # NoResp THEN validateUser(email, password)
  ELSE IF userTenants(email) = {}
    THEN ForbiddenException("Usuario nao possui acesso a nenhum tenant")
  ELSE NoResp

\* what a login request was given, for the properties
NestLoginFlags(email, password) ==
  (IF findByEmail(email) = NoUser THEN {"unknownEmail"} ELSE {})
  \cup (IF findByEmail(email) # NoUser /\ ~ComparePassword(password, nestUser[email].passwordHash)
          THEN {"wrongPassword"} ELSE {})
  \cup (IF findByEmail(email) # NoUser /\ nestUser[email].status # "ACTIVE"
          THEN {"notActive"} ELSE {})
  \cup (IF findByEmail(email) # NoUser /\ userTenants(email) = {} THEN {"noTenant"} ELSE {})

NestLoginStampingBeforeTenants(email, password) ==
  /\ app = "nest"
  /\ ops < MaxOps
  /\ ops' = ops + 1
  /\ IF nestLoginCheck(email, password) # NoResp
       THEN /\ loginOutcome' = Outcome(email, NestLoginFlags(email, password), nestLoginCheck(email, password))
            /\ nestUser' = IF validateUser(email, password) = NoResp
                             THEN [nestUser EXCEPT ![email].lastLogin = now]
                             ELSE nestUser
            /\ UNCHANGED <<issues, userSession, held, heldAccess>>
       ELSE /\ issues' = issues + 1
            /\ LET accessToken == jwtSign(email, now)
                   refreshToken == randomBytes(issues + 1)
               IN /\ nestUser' = [nestUser EXCEPT ![email].lastLogin = now]
                  /\ userSession' = userSession \cup {createSession(email, refreshToken)}
                  /\ held' = held \cup {[token |-> refreshToken, user |-> email]}
                  /\ heldAccess' = heldAccess \cup {accessToken}
                  /\ loginOutcome' = Outcome(email, NestLoginFlags(email, password),
                                             Success(200, "OK", accessToken, refreshToken))
  /\ UNCHANGED <<app, startup, socket, now, ticks, reqs, answered, expressVars, userTenant, tenant, historyVars>>

\* AuthService.login (NestJS)
NestLogin(email, password) ==
  /\ app = "nest"
  /\ ops < MaxOps
  /\ ops' = ops + 1
  /\ IF nestLoginCheck(email, password) # NoResp
       THEN /\ loginOutcome' = Outcome(email, NestLoginFlags(email, password), nestLoginCheck(email, password))
            /\ UNCHANGED <<issues, nestUser, userSession, held, heldAccess>>
       ELSE /\ issues' = issues + 1
            /\ LET accessToken == jwtSign(email, now)
                   refreshToken == randomBytes(issues + 1)
               IN /\ nestUser' = [nestUser EXCEPT ![email].lastLogin = now]
                  /\ userSession' = userSession \cup {createSession(email, refreshToken)}
                  /\ held' = held \cup {[token |-> refreshToken, user |-> email]}
                  /\ heldAccess' = heldAccess \cup {accessToken}
                  /\ loginOutcome' = Outcome(email, NestLoginFlags(email, password),
                                             Success(200, "OK", accessToken, refreshToken))
  /\ UNCHANGED <<app, startup, socket, now, ticks, reqs, answered, expressVars, userTenant, tenant, historyVars>>

(***************************************************************************)
(* NestJS service: AuthService.selectTenant, behind JwtAuthGuard.          *)
(***************************************************************************)
\* createTenantJwtConfig(subdomain).secret: the secret, a dash, the subdomain
TenantSecret(subdomain) ==
  CASE subdomain = "t1" -> "JWT_SECRET-t1"
    [] subdomain = "t2" -> "JWT_SECRET-t2"

\* jwtService.sign({ sub, tenantId, role }, createTenantJwtConfig(subdomain))
tenantJwtSign(sub, tenantId, role, subdomain, t) ==
  [fmt |-> "jwt", type |-> "-", sub |-> sub, jti |-> 0, iat |-> t, exp |-> t + Secs(expiresIn),
   key |-> TenantSecret(subdomain), iss |-> "APP_AUTH_DOMAIN", aud |-> subdomain,
   tenantId |-> tenantId, role |-> role]

\* prisma.userTenant.findUnique({ userId_tenantId }): the memberships found (one or none)
findMembership(userId, tenantId) ==
  {m \in userTenant : m.userId = userId /\ m.tenantId = tenantId}

selectTenantCheckIgnoringStatus(userId, tenantId) ==
  IF findMembership(userId, tenantId) = {}
    THEN ForbiddenException("Usuario nao possui acesso ao tenant selecionado")
  ELSE NoResp

\* AuthService.selectTenant up to token generation: the exception it throws, or NoResp
selectTenantCheck(userId, tenantId) ==
  IF findMembership(userId, tenantId) = {}
    THEN ForbiddenException("Usuario nao possui acesso ao tenant selecionado")
  ELSE IF tenant[tenantId].status # "ACTIVE"
    THEN ForbiddenException("O tenant selecionado esta inativo")
  ELSE NoResp

\* what a tenant selection was given, for the properties
SelectTenantFlags(userId, tenantId) ==
  (IF findMembership(userId, tenantId) = {} THEN {"noMembership"} ELSE {})
  \cup (IF tenant[tenantId].status # "ACTIVE" THEN {"tenantNotActive"} ELSE {})

SelectTenantCreatingSession(userId, tenantId) ==
  /\ app = "nest"
  /\ ops < MaxOps
  /\ ops' = ops + 1
  /\ \E bearer \in heldAccess : nestAuthenticate(bearer) = userId
  /\ answered' = Answer("selectTenant", userId, tenantId, SelectTenantFlags(userId, tenantId),
                        selectTenantCheck(userId, tenantId))
  /\ userSession' = userSession \cup {createSession(userId, randomBytes(issues + 1))}
  /\ UNCHANGED <<app, startup, socket, now, ticks, issues, reqs, loginOutcome, expressVars, nestUser, userTenant,
                 tenant, held, heldAccess, historyVars>>

\* AuthService.selectTenant(userId, { tenantId }): userId is the principal of the bearer token
SelectTenant(userId, tenantId) ==
  /\ app = "nest"
  /\ ops < MaxOps
  /\ ops' = ops + 1
  /\ \E bearer \in heldAccess : nestAuthenticate(bearer) = userId
  /\ IF selectTenantCheck(userId, tenantId) # NoResp
       THEN answered' = Answer("selectTenant", userId, tenantId, SelectTenantFlags(userId, tenantId),
                               selectTenantCheck(userId, tenantId))
       ELSE LET userTenantRow == CHOOSE m \in findMembership(userId, tenantId) : TRUE
                accessToken == tenantJwtSign(userId, tenantId, userTenantRow.roleId,
                                             tenant[tenantId].subdomain, now)
            IN answered' = Answer("selectTenant", userId, tenantId, SelectTenantFlags(userId, tenantId),
                                  Success(200, "OK", accessToken, NoToken))
  /\ UNCHANGED <<app, startup, socket, now, ticks, issues, reqs, loginOutcome, expressVars, nestVars, held,
                 heldAccess, historyVars>>

(***************************************************************************)
(* NestJS service: refreshTokens, logout, UsersService.updatePassword.     *)
(***************************************************************************)
\* AuthService.refreshTokens: a live session with the digest of the token, a new access token
NestRefreshTokens(token) ==
  /\ app = "nest"
  /\ ops < MaxOps
  /\ ops' = ops + 1
  /\ IF findSession(token) = {}
       THEN /\ answered' = Answer("refresh", NoUser, NoTenant, {"noSession"},
                                  UnauthorizedException("Sessao invalida ou expirada"))
            /\ UNCHANGED <<heldAccess, exchanged>>
       ELSE LET session == CHOOSE x \in findSession(token) : TRUE
            IN /\ heldAccess' = heldAccess \cup {jwtSign(session.userId, now)}
               /\ exchanged' = exchanged \cup {[old |-> token, new |-> NoToken,
                                                flags |-> RefreshFlags(token)]}
               /\ answered' = Answer("refresh", session.userId, NoTenant, {},
                                     Success(200, "OK", jwtSign(session.userId, now), NoToken))
  /\ UNCHANGED <<app, startup, socket, now, ticks, issues, reqs, loginOutcome, expressVars, nestVars, held,
                 loggedOut, blacklisted, pwStale>>

\* the status column of a prisma.user row is written to: no handler of the service sets it
\* (UpdateUserDto has no status), the row is changed in the database by an administrator
UserStatusChanged(id, status) ==
  /\ app = "nest"
  /\ ops < MaxOps
  /\ ops' = ops + 1
  /\ nestUser[id].status # status
  /\ nestUser' = [nestUser EXCEPT ![id].status = status]
  /\ UNCHANGED <<app, startup, socket, now, ticks, issues, reqs, loginOutcome, expressVars, userSession,
                 userTenant, tenant, held, heldAccess, answered, historyVars>>

\* AuthService.logout (NestJS), behind JwtAuthGuard: deleteMany({ tokenHash })
NestLogout(token) ==
  /\ app = "nest"
  /\ ops < MaxOps
  /\ ops' = ops + 1
  /\ \E bearer \in heldAccess : nestAuthenticate(bearer) # NoUser
  /\ userSession' = {x \in userSession : x.tokenHash # Sha256(token)}
  /\ loggedOut' = loggedOut \cup {token}
  /\ answered' = Answer("logout", NoUser, NoTenant, LogoutFlags(token), Success(204, "-", NoToken, NoToken))
  /\ UNCHANGED <<app, startup, socket, now, ticks, issues, reqs, loginOutcome, expressVars, nestUser, userTenant,
                 tenant, held, heldAccess, exchanged, blacklisted, pwStale>>

\* UsersService.updatePassword(id, currentPassword, newPassword), behind JwtAuthGuard
NestUpdatePassword(id, currentPassword, newPassword) ==
  /\ app = "nest"
  /\ ops < MaxOps
  /\ ops' = ops + 1
  /\ \E bearer \in heldAccess : nestAuthenticate(bearer) # NoUser
  /\ LET flags == ChangePasswordFlags(currentPassword, newPassword, nestUser[id].passwordHash)
     IN IF ~ComparePassword(currentPassword, nestUser[id].passwordHash)
          THEN /\ answered' = Answer("changePassword", id, NoTenant, flags,
                                     ConflictException("Senha atual incorreta"))
               /\ UNCHANGED <<nestUser, pwStale>>
          ELSE /\ nestUser' = [nestUser EXCEPT ![id].passwordHash = HashPassword(newPassword)]
               /\ pwStale' = pwStale \cup ObtainedBy(id)
               /\ answered' = Answer("changePassword", id, NoTenant, flags,
                                     Success(204, "-", NoToken, NoToken))
  /\ UNCHANGED <<app, startup, socket, now, ticks, issues, reqs, loginOutcome, expressVars, userSession, userTenant,
                 tenant, held, heldAccess, exchanged, loggedOut, blacklisted>>

(***************************************************************************)
(* Environment.                                                            *)
(***************************************************************************)
\* RedisService.MAX_RECONNECT_ATTEMPTS and RECONNECT_TIMEOUT (ms)
MAX_RECONNECT_ATTEMPTS == 5
RECONNECT_TIMEOUT == 5000

Min(a, b) == IF a < b THEN a ELSE b

\* a reconnect strategy's answer that ends the reconnecting: false (or an Error)
NoReconnect == -1

\* RedisService.getReconnectStrategy, applied to the number of failed attempts: the
\* delay in ms before the next attempt, or NoReconnect
reconnectStrategy(retries) ==
  IF isDevelopment THEN NoReconnect
  ELSE IF retries > MAX_RECONNECT_ATTEMPTS THEN RECONNECT_TIMEOUT
  ELSE Min(retries * 500, 3000)

\* the socket of the client: "ready", "reconnecting" (waiting delay ms before the next
\* attempt, after retries failed ones), or "closed" (no further attempt)
Socket(state, retries, delay) == [state |-> state, retries |-> retries, delay |-> delay]
SocketClosed == Socket("closed", 0, 0)
SocketReady == Socket("ready", 0, 0)

\* the client after the connection is lost or an attempt has failed: it asks the strategy
AfterFailure(retries) ==
  IF reconnectStrategy(retries) = NoReconnect THEN Socket("closed", retries, 0)
  ELSE Socket("reconnecting", retries, reconnectStrategy(retries))

\* the connection is lost ("error"): isClientConnected = false, the strategy is asked with 0
ConnectionLost ==
  /\ app = "express"
  /\ socket.state = "ready"
  /\ socket' = AfterFailure(0)
  /\ isClientConnected' = FALSE
  /\ UNCHANGED <<ops, app, startup, now, ticks, issues, reqs, loginOutcome, answered, nodeEnv,
                 refreshExpiresIn, user, redisKeys, nestVars, held, heldAccess, historyVars>>

\* an attempt to reconnect fails: the strategy is asked with one more failed attempt
ReconnectFails ==
  /\ app = "express"
  /\ socket.state = "reconnecting"
  /\ socket.retries < MaxRetries
  /\ socket' = AfterFailure(socket.retries + 1)
  /\ UNCHANGED <<serviceVars, startup>>

\* an attempt to reconnect succeeds ("ready"): isClientConnected = true
ReconnectSucceeds ==
  /\ app = "express"
  /\ socket.state = "reconnecting"
  /\ socket' = SocketReady
  /\ isClientConnected' = TRUE
  /\ UNCHANGED <<ops, app, startup, now, ticks, issues, reqs, loginOutcome, answered, nodeEnv,
                 refreshExpiresIn, user, redisKeys, nestVars, held, heldAccess, historyVars>>

\* the Redis client's "ready" event
RedisReady ==
  /\ app = "express"
  /\ ~isClientConnected
  /\ isClientConnected' = TRUE
  /\ UNCHANGED <<ops, app, startup, socket, now, ticks, issues, reqs, loginOutcome, answered, nodeEnv, refreshExpiresIn, user,
                 redisKeys, nestVars, held, heldAccess, historyVars>>

\* the Redis client's "end" and "error" events
RedisEnd ==
  /\ app = "express"
  /\ isClientConnected
  /\ isClientConnected' = FALSE
  /\ UNCHANGED <<ops, app, startup, socket, now, ticks, issues, reqs, loginOutcome, answered, nodeEnv, refreshExpiresIn, user,
                 redisKeys, nestVars, held, heldAccess, historyVars>>

\* time passes
Tick(d) ==
  /\ ticks < MaxTicks
  /\ now' = now + d
  /\ ticks' = ticks + 1
  /\ UNCHANGED <<ops, app, startup, socket, issues, reqs, loginOutcome, answered, expressVars, nestVars, held, heldAccess, historyVars>>

(***************************************************************************)
(* Process start: the environment variables and their validation.          *)
(***************************************************************************)
\* a variable that process.env does not hold
Unset == "<unset>"
UnsetDuration == Duration(0, Unset)

\* a JWT_SECRET shorter than the 32 characters both schemas ask for
ShortSecret == "secret"
SecretLength(secret) == IF secret = ShortSecret THEN 6 ELSE 32

\* the contents of process.env the model starts the process with
ProcessEnvs ==
  [NODE_ENV : {"development", "production", "test"},
   JWT_SECRET : {SecretKey, ShortSecret, Unset},
   JWT_EXPIRES_IN : {expiresIn, UnsetDuration},
   JWT_REFRESH_EXPIRES_IN : {Duration(7, "d"), Duration(7, "days"), UnsetDuration},
   JWT_ISSUER : {"api-auth", Unset},
   JWT_AUDIENCE : {"api-clients", Unset}]

\* envSchema.validate(process.env) of the Express service: the variables it reports
envSchemaError(processEnv) ==
  IF processEnv.JWT_SECRET = Unset \/ SecretLength(processEnv.JWT_SECRET) < 32
    THEN {"JWT_SECRET"} ELSE {}

\* the object env of the Express service: the validated values, the schema's defaults
\* where a variable is not set
Environment(processEnv) ==
  [nodeEnv |-> processEnv.NODE_ENV,
   secret |-> processEnv.JWT_SECRET,
   expiresIn |-> IF processEnv.JWT_EXPIRES_IN = UnsetDuration
                   THEN Duration(1, "h") ELSE processEnv.JWT_EXPIRES_IN,
   refreshExpiresIn |-> IF processEnv.JWT_REFRESH_EXPIRES_IN = UnsetDuration
                          THEN Duration(7, "d") ELSE processEnv.JWT_REFRESH_EXPIRES_IN,
   issuer |-> IF processEnv.JWT_ISSUER = Unset THEN "api-projeto" ELSE processEnv.JWT_ISSUER,
   audience |-> IF processEnv.JWT_AUDIENCE = Unset THEN "api-clients" ELSE processEnv.JWT_AUDIENCE]

NoEnvironment ==
  [nodeEnv |-> "-", secret |-> "-", expiresIn |-> UnsetDuration, refreshExpiresIn |-> UnsetDuration,
   issuer |-> "-", audience |-> "-"]

\* config/environment.ts, evaluated when the Express service is loaded: an invalid
\* environment ends the process in production and is only reported otherwise
Bootstrap ==
  /\ app = "express"
  /\ startup.phase = "boot"
  /\ IF envSchemaError(startup.processEnv) # {} /\ startup.processEnv.NODE_ENV = "production"
       THEN startup' = [startup EXCEPT !.phase = "exited"]
       ELSE startup' = [startup EXCEPT !.phase = "serving", !.env = Environment(startup.processEnv)]
  /\ UNCHANGED <<serviceVars, socket>>

\* envSchema.safeParse(process.env) of the NestJS service: the variables it reports
nestEnvSchemaError(processEnv) ==
  (IF processEnv.JWT_SECRET = Unset \/ SecretLength(processEnv.JWT_SECRET) < 32
     THEN {"JWT_SECRET"} ELSE {})
  \cup (IF processEnv.JWT_REFRESH_EXPIRES_IN # UnsetDuration
              /\ ~validateConfig(processEnv.JWT_REFRESH_EXPIRES_IN)
          THEN {"JWT_REFRESH_EXPIRATION"} ELSE {})

\* what the NestJS service reads: appConfig() returns process.env as it is, createSession
\* reads process.env.JWT_REFRESH_EXPIRATION || '7d'
nestEnvironment(processEnv) ==
  [nodeEnv |-> processEnv.NODE_ENV,
   secret |-> processEnv.JWT_SECRET,
   expiresIn |-> processEnv.JWT_EXPIRES_IN,
   refreshExpiresIn |-> IF processEnv.JWT_REFRESH_EXPIRES_IN = UnsetDuration
                          THEN Duration(7, "d") ELSE processEnv.JWT_REFRESH_EXPIRES_IN,
   issuer |-> processEnv.JWT_ISSUER,
   audience |-> processEnv.JWT_AUDIENCE]

\* ConfigModule.forRoot({ validate: validateConfig }) of the NestJS service: an environment
\* that fails the schema throws in every profile
NestBootstrap ==
  /\ app = "nest"
  /\ startup.phase = "boot"
  /\ IF nestEnvSchemaError(startup.processEnv) # {}
       THEN startup' = [startup EXCEPT !.phase = "exited"]
       ELSE startup' = [startup EXCEPT !.phase = "serving", !.env = nestEnvironment(startup.processEnv)]
  /\ UNCHANGED <<serviceVars, socket>>

\* the process of the behaviours of Spec: started, with every variable set
Started ==
  [phase |-> "serving",
   processEnv |-> [NODE_ENV |-> nodeEnv, JWT_SECRET |-> SecretKey, JWT_EXPIRES_IN |-> expiresIn,
                   JWT_REFRESH_EXPIRES_IN |-> refreshExpiresIn, JWT_ISSUER |-> "api-auth",
                   JWT_AUDIENCE |-> "api-clients"],
   env |-> [nodeEnv |-> nodeEnv, secret |-> SecretKey, expiresIn |-> expiresIn,
            refreshExpiresIn |-> refreshExpiresIn, issuer |-> "api-auth",
            audience |-> "api-clients"]]

(***************************************************************************)
(* The two deployments.                                                    *)
(***************************************************************************)
InitCommon ==
  /\ now = 0
  /\ ticks = 0
  /\ ops = 0
  /\ issues = 0
  /\ reqs = [r \in Reqs |-> Idle]
  /\ loginOutcome = NoOutcome
  /\ answered = NoAnswer
  /\ user = [u \in Users |-> [password |-> HashPassword(InitialPassword), refreshToken |-> NoToken]]
  /\ redisKeys = {}
  /\ userSession = {}
  /\ held = {}
  /\ heldAccess = {}
  /\ exchanged = {}
  /\ loggedOut = {}
  /\ blacklisted = {}
  /\ pwStale = {}

Membership(userId, tenantId, roleId) == [userId |-> userId, tenantId |-> tenantId, roleId |-> roleId]

\* the Express service: Redis not yet connected (RedisService.isClientConnected = false)
InitExpress ==
  /\ app = "express"
  /\ nodeEnv \in {"development", "production"}
  /\ refreshExpiresIn \in RefreshDurations
  /\ isClientConnected = FALSE
  /\ nestUser = [u \in Users |-> [passwordHash |-> HashPassword(InitialPassword),
                                  status |-> "ACTIVE", lastLogin |-> -1]]
  /\ userTenant = {}
  /\ tenant = [t \in Tenants |-> [status |-> "ACTIVE", subdomain |-> t]]

\* the NestJS service: accounts of any status, with and without a tenant
InitNest ==
  /\ app = "nest"
  /\ nodeEnv = "production"
  /\ refreshExpiresIn \in NestRefreshDurations
  /\ validateConfig(refreshExpiresIn)
  /\ isClientConnected = FALSE
  /\ \E st \in UserStatus :
       nestUser = [u \in Users |-> [passwordHash |-> HashPassword(InitialPassword),
                                    status |-> IF u = "u1" THEN st ELSE "ACTIVE",
                                    lastLogin |-> -1]]
  /\ userTenant \in {{Membership("u1", "t1", "admin"), Membership("u1", "t2", "member")},
                     {Membership("u1", "t1", "admin"), Membership("u1", "t2", "member"),
                      Membership("u2", "t1", "member")}}
  /\ tenant = [t \in Tenants |-> [status |-> IF t = "t1" THEN "ACTIVE" ELSE "INACTIVE",
                                  subdomain |-> t]]

Init == InitCommon /\ (InitExpress \/ InitNest) /\ startup = Started /\ socket = SocketClosed

Next ==
  \/ \E email \in Emails, password \in Passwords : Login(email, password)
  \/ \E token \in Presentable : RefreshRejected(token)
  \/ \E r \in Reqs, token \in Presentable : RefreshToken(r, token)
  \/ \E r \in Reqs : RefreshFindUser(r)
  \/ \E r \in Reqs : RefreshUpdate(r)
  \/ \E r \in Reqs : RefreshBlacklist(r)
  \/ \E userId \in Users, token \in Presentable : Logout(userId, token)
  \/ \E userId \in Users, cur \in Passwords, new \in Passwords : ChangePassword(userId, cur, new)
  \/ \E email \in Emails, password \in Passwords : NestLogin(email, password)
  \/ \E userId \in Users, tenantId \in Tenants : SelectTenant(userId, tenantId)
  \/ \E token \in Presentable : NestRefreshTokens(token)
  \/ \E token \in Presentable : NestLogout(token)
  \/ \E id \in Users, cur \in Passwords, new \in Passwords : NestUpdatePassword(id, cur, new)
  \/ \E id \in Users, status \in UserStatus : UserStatusChanged(id, status)
  \/ RedisReady
  \/ RedisEnd
  \/ \E d \in TickSteps : Tick(d)

Spec == Init /\ [][Next]_vars

(***************************************************************************)
(* The start of the process, for every environment of ProcessEnvs.         *)
(***************************************************************************)
InitStartup ==
  /\ InitCommon
  /\ \/ InitExpress /\ nodeEnv = "development" /\ refreshExpiresIn = Duration(7, "d")
     \/ InitNest /\ refreshExpiresIn = Duration(7, "d") /\ nestUser["u1"].status = "ACTIVE"
                 /\ Cardinality(userTenant) = 2
  /\ \E processEnv \in ProcessEnvs :
       startup = [phase |-> "boot", processEnv |-> processEnv, env |-> NoEnvironment]
  /\ socket = SocketClosed

NextStartup == Bootstrap \/ NestBootstrap

SpecStartup == InitStartup /\ [][NextStartup]_vars

(***************************************************************************)
(* Token verification, for tokens of every make: signed with the secret or *)
(* with another key, with the issuer and audience of the service or        *)
(* others, revoked or not, verified before and after their expiry.         *)
(***************************************************************************)
ForgedKey == "another secret"

\* a subject without a row in the user table
DeletedUser == "u0"

VerifyInputs ==
  {[generateAccessToken(sub, 1, 0) EXCEPT !.type = type, !.key = key, !.iss = iss, !.aud = aud] :
     sub \in {"u1", DeletedUser}, type \in {"access", "refresh"}, key \in {SecretKey, ForgedKey},
     iss \in {Issuer, "another issuer"}, aud \in {Audience, "another audience"}}

InitVerify ==
  /\ now = 0
  /\ ticks = 0
  /\ ops = 0
  /\ issues = 1
  /\ reqs = [r \in Reqs |-> Idle]
  /\ loginOutcome = NoOutcome
  /\ answered = NoAnswer
  /\ user = [u \in Users |-> [password |-> HashPassword(InitialPassword), refreshToken |-> NoToken]]
  /\ userSession = {}
  /\ heldAccess = {}
  /\ exchanged = {}
  /\ loggedOut = {}
  /\ blacklisted = {}
  /\ pwStale = {}
  /\ InitExpress
  /\ startup = Started
  /\ socket = SocketClosed
  /\ \E token \in VerifyInputs :
       /\ held = {[token |-> token, user |-> "u1"]}
       /\ redisKeys \in {{}, {[key |-> BlacklistKey(token), value |-> "true", expireAt |-> BLACKLIST_TTL]}}

NextVerify ==
  \/ \E token \in Presentable : Verify(token)
  \/ \E token \in Presentable : Authenticate(token)
  \/ RedisReady
  \/ RedisEnd
  \/ \E d \in TickSteps : Tick(d)

SpecVerify == InitVerify /\ [][NextVerify]_vars

(***************************************************************************)
(* RedisService used directly, in every profile, connected and not.        *)
(***************************************************************************)
\* CacheService.formatKey: the prefix of the namespace and the key
formatKey(key) == [prefix |-> "cache:app:", key |-> key]

\* CacheService.DEFAULT_TTL
DEFAULT_TTL == 3600

\* what fn resolves to, JSON.stringify of it, and JSON.parse of a stored string: the value,
\* or "throw" for a string that is not JSON
FnResults == {"r1"}
JsonStringify(value) == CASE value = "r1" -> "\"r1\"" [] OTHER -> "{}"
JsonParse(string) == CASE string = "\"r1\"" -> "r1" [] string = "{}" -> "{}" [] OTHER -> "throw"

CacheKeys == {"k1"}
RedisKeyNames == {formatKey(key) : key \in CacheKeys}
RedisValues == {"v1", JsonStringify("r1")}
ExpireInSeconds == {0, 60 * 60}

\* CacheService.get: the parsed value, null on a miss, when the cache is disabled, and on
\* every error of Redis or of JSON.parse
cacheGet(key, isEnabled, clientFails) ==
  LET got == redisService_get(formatKey(key), clientFails)
  IN IF ~isEnabled \/ got.thrown \/ got.value = Null \/ JsonParse(got.value) = "throw" THEN Null
     ELSE JsonParse(got.value)

\* CacheService.set: the keys of Redis afterwards; every error is logged and swallowed
cacheSet(key, value, ttlSeconds, isEnabled, clientFails) ==
  IF ~isEnabled THEN redisKeys
  ELSE redisService_set(formatKey(key), JsonStringify(value),
                        IF ttlSeconds # 0 THEN ttlSeconds ELSE DEFAULT_TTL, clientFails).keys

\* an invocation of fn: it resolves to a value or rejects
Resolves(value) == [rejects |-> FALSE, value |-> value]
Rejects == [rejects |-> TRUE, value |-> "-"]
FnOutcomes == {Resolves(value) : value \in FnResults} \cup {Rejects}

\* what getOrSet hands back: how many times it invoked fn, the value it returns or that
\* it rejects, and the keys of Redis afterwards
GetOrSetResult(calls, outcome, keys) ==
  [calls |-> calls, thrown |-> outcome.rejects, value |-> outcome.value, keys |-> keys]

\* CacheService.getOrSet(key, fn, ttlSeconds); first and second are what the first and the
\* second invocation of fn do, getFails and setFails whether the Redis commands fail
getOrSet(key, first, second, ttlSeconds, isEnabled, getFails, setFails) ==
  IF ~isEnabled THEN GetOrSetResult(1, first, redisKeys)
  ELSE IF cacheGet(key, isEnabled, getFails) # Null
    THEN GetOrSetResult(0, Resolves(cacheGet(key, isEnabled, getFails)), redisKeys)
  ELSE IF first.rejects THEN GetOrSetResult(2, second, redisKeys)
  ELSE GetOrSetResult(1, first, cacheSet(key, first.value, ttlSeconds, isEnabled, setFails))

\* what a call finds: the client not connected, the command failing
CallFlags(clientFails) ==
  (IF ~isClientConnected THEN {"disconnected"} ELSE {})
  \cup (IF clientFails THEN {"clientFails"} ELSE {})

\* a call of a RedisService operation: its result goes to answered, its keys to redisKeys
RedisCall(operation, clientFails, result) ==
  /\ app = "express"
  /\ ops < MaxOps
  /\ ops' = ops + 1
  /\ answered' = Answer(operation, NoUser, NoTenant, CallFlags(clientFails),
                        [thrown |-> result.thrown, value |-> result.value])
  /\ redisKeys' = result.keys
  /\ UNCHANGED <<app, startup, socket, now, ticks, issues, reqs, loginOutcome, nodeEnv, refreshExpiresIn,
                 user, isClientConnected, nestVars, held, heldAccess, historyVars>>

RedisServiceSet(key, value, expireInSeconds, clientFails) ==
  RedisCall("set", clientFails, redisService_set(key, value, expireInSeconds, clientFails))

RedisServiceGet(key, clientFails) ==
  RedisCall("get", clientFails, redisService_get(key, clientFails))

RedisServiceDelete(key, clientFails) ==
  RedisCall("delete", clientFails, redisService_delete(key, clientFails))

RedisServiceExists(key, clientFails) ==
  RedisCall("exists", clientFails, redisService_exists(key, clientFails))

\* what a call of getOrSet finds: the cache disabled, a value under the key, fn rejecting
GetOrSetFlags(key, first, isEnabled, getFails) ==
  (IF ~isEnabled THEN {"disabled"} ELSE {})
  \cup (IF cacheGet(key, isEnabled, getFails) # Null THEN {"hit"} ELSE {})
  \cup (IF first.rejects THEN {"fnRejects"} ELSE {})
  \cup (IF ~isClientConnected \/ getFails THEN {"cacheError"} ELSE {})

\* a call of CacheService.getOrSet
GetOrSet(key, first, second, ttlSeconds, isEnabled, getFails, setFails) ==
  /\ app = "express"
  /\ ops < MaxOps
  /\ ops' = ops + 1
  /\ LET result == getOrSet(key, first, second, ttlSeconds, isEnabled, getFails, setFails)
     IN /\ answered' = Answer("getOrSet", NoUser, NoTenant,
                              GetOrSetFlags(key, first, isEnabled, getFails),
                              [calls |-> result.calls, thrown |-> result.thrown,
                               value |-> result.value, first |-> first])
        /\ redisKeys' = result.keys
  /\ UNCHANGED <<app, startup, socket, now, ticks, issues, reqs, loginOutcome, nodeEnv, refreshExpiresIn,
                 user, isClientConnected, nestVars, held, heldAccess, historyVars>>

InitRedis ==
  /\ now = 0
  /\ ticks = 0
  /\ ops = 0
  /\ issues = 0
  /\ reqs = [r \in Reqs |-> Idle]
  /\ loginOutcome = NoOutcome
  /\ answered = NoAnswer
  /\ user = [u \in Users |-> [password |-> HashPassword(InitialPassword), refreshToken |-> NoToken]]
  /\ redisKeys = {}
  /\ userSession = {}
  /\ held = {}
  /\ heldAccess = {}
  /\ exchanged = {}
  /\ loggedOut = {}
  /\ blacklisted = {}
  /\ pwStale = {}
  /\ app = "express"
  /\ nodeEnv \in {"development", "test", "production"}
  /\ refreshExpiresIn = Duration(7, "d")
  /\ isClientConnected \in BOOLEAN
  /\ nestUser = [u \in Users |-> [passwordHash |-> HashPassword(InitialPassword),
                                  status |-> "ACTIVE", lastLogin |-> -1]]
  /\ userTenant = {}
  /\ tenant = [t \in Tenants |-> [status |-> "ACTIVE", subdomain |-> t]]
  /\ startup = Started
  /\ socket = IF isClientConnected THEN SocketReady ELSE SocketClosed

NextRedis ==
  \/ \E key \in RedisKeyNames, value \in RedisValues, expireInSeconds \in ExpireInSeconds,
        clientFails \in BOOLEAN : RedisServiceSet(key, value, expireInSeconds, clientFails)
  \/ \E key \in RedisKeyNames, clientFails \in BOOLEAN : RedisServiceGet(key, clientFails)
  \/ \E key \in RedisKeyNames, clientFails \in BOOLEAN : RedisServiceDelete(key, clientFails)
  \/ \E key \in RedisKeyNames, clientFails \in BOOLEAN : RedisServiceExists(key, clientFails)
  \/ \E key \in CacheKeys, first \in FnOutcomes, second \in FnOutcomes, ttlSeconds \in ExpireInSeconds,
        isEnabled \in BOOLEAN, getFails \in BOOLEAN, setFails \in BOOLEAN :
       GetOrSet(key, first, second, ttlSeconds, isEnabled, getFails, setFails)
  \/ ConnectionLost
  \/ ReconnectFails
  \/ ReconnectSucceeds
  \/ \E d \in TickSteps : Tick(d)

SpecRedis == InitRedis /\ [][NextRedis]_vars

(***************************************************************************)
(* Properties.                                                             *)
(***************************************************************************)
\* a refresh presented now passes every check of the refresh handler:
\* Express verifyToken and the comparison with the stored token, NestJS the live session
Exchangeable(token) ==
  IF app = "express"
    THEN /\ verifyToken(token).valid
         /\ verifyToken(token).userId \in Users
         /\ StoredTokenMatches(user[verifyToken(token).userId].refreshToken, token)
    ELSE findSession(token) # {}

\* the response of a login with an email that does not exist
UnknownEmailResponse ==
  IF app = "express" THEN loginCheck(UnknownEmail, InitialPassword)
  ELSE nestLoginCheck(UnknownEmail, InitialPassword)

\* C1: two refresh requests that present the same refresh token and overlap in time
\* (neither arrived after the other had been answered) never both succeed.
C1_ConcurrentRefreshesNeverBothSucceed ==
  \A x, y \in exchanged :
    (x.old = y.old /\ x # y /\ "concurrent" \in (x.flags \cup y.flags))
      => ("exchanged" \in x.flags \/ "exchanged" \in y.flags)

\* C2: a refresh token that has been exchanged successfully is never exchanged again:
\* no refresh succeeds with a token that had already been exchanged when the request arrived.
C2_ExchangedTokenNeverExchangedAgain ==
  \A x \in exchanged : "exchanged" \notin x.flags

\* C3: after a logout with refresh token T has completed, no later refresh presenting T succeeds.
C3_LoggedOutTokenNeverExchanged ==
  \A x \in exchanged : "loggedOut" \notin x.flags

\* C4: after a successful password change of a principal, no later refresh succeeds with a
\* refresh token the principal obtained before the change.
C4_TokenFromBeforePasswordChangeNeverExchanged ==
  \A x \in exchanged : "pwStale" \notin x.flags

\* C5: a refresh token for which blacklistToken has returned (in any profile, with Redis
\* connected or not, before or after the entry's TTL) never again produces a successful refresh.
C5_BlacklistedTokenNeverExchanged ==
  \A x \in exchanged : "blacklisted" \notin x.flags

\* C6: in every reachable state at most one refresh credential per login session (the user row
\* of the Express service, the userSession row of the NestJS service) can be exchanged, and a
\* token whose exchange has issued a successor is no longer exchangeable.
C6_OneExchangeableCredentialPerSession ==
  /\ app = "express" =>
       \A u \in Users : Cardinality({t \in ObtainedBy(u) : Exchangeable(t)}) <= 1
  /\ app = "nest" =>
       \A s \in userSession :
         Cardinality({t \in Presentable : s.tokenHash = Sha256(t) /\ Exchangeable(t)}) <= 1
  /\ \A x \in exchanged : x.new # NoToken => ~Exchangeable(x.old)

\* C6 witness: a refresh has issued a successor, the successor is exchangeable and its
\* predecessor is not
C6_Witness ==
  \E x \in exchanged : x.new # NoToken /\ Exchangeable(x.new) /\ ~Exchangeable(x.old)

\* C7: no server-side store (user row, userSession row, Redis key) holds a value equal to a raw
\* refresh token handed to a client.
C7_StoresHoldNoRawRefreshToken ==
  \A t \in Presentable :
    /\ \A u \in Users : user[u].refreshToken # t
    /\ \A s \in userSession : s.tokenHash # t
    /\ \A e \in redisKeys : e.key.token # t

\* C8: a login with the email of an account and a wrong password gets the same response
\* (status and message) as a login with an email that does not exist.
C8_WrongPasswordSameAsUnknownEmail ==
  "wrongPassword" \in loginOutcome.flags => loginOutcome.resp = UnknownEmailResponse

\* C9: a login for an account whose status is not ACTIVE is rejected with the same response as a
\* login with an unknown email, whether or not the password is correct.
C9_NotActiveRejectedAsInvalidCredentials ==
  "notActive" \in loginOutcome.flags => loginOutcome.resp = UnknownEmailResponse

\* a login that was given the email of an active account and its password
ValidActiveLogin ==
  loginOutcome.flags \cap {"none", "unknownEmail", "wrongPassword", "notActive"} = {}

\* a login response that carries an access token for the principal, expiring one access TTL
\* after it was issued
LoginSucceeded ==
  /\ loginOutcome.resp.status = 200
  /\ loginOutcome.resp.accessToken.sub = findByEmail(loginOutcome.email)
  /\ loginOutcome.resp.accessToken.exp = loginOutcome.resp.accessToken.iat + Secs(expiresIn)

\* C10 as stated: every login with the email of an active account and its password succeeds,
\* with an access token whose subject is the principal and whose expiry is iat + access TTL.
C10_ValidLoginSucceeds ==
  ValidActiveLogin => LoginSucceeded

\* C10 amended: the same for every such login of a principal that, in the tenant-aware service,
\* has at least one tenant membership.
C10_ValidLoginWithTenantSucceeds ==
  (ValidActiveLogin /\ "noTenant" \notin loginOutcome.flags) => LoginSucceeded

\* C10 witness: a login of an active account with its password and a tenant has succeeded
\* in the tenant-aware service
C10_Witness ==
  /\ app = "nest"
  /\ ValidActiveLogin /\ "noTenant" \notin loginOutcome.flags
  /\ LoginSucceeded

\* C11: a tenant selection by a principal without a membership in the tenant is answered with a
\* forbidden error, one for a tenant that is not ACTIVE with a different forbidden error, and
\* every other one with an access token carrying sub = userId, the tenant id and the role of
\* the membership.
C11_SelectTenantOutcomes ==
  answered.op = "selectTenant" =>
    /\ "noMembership" \in answered.flags =>
         answered.resp = Error(403, "Usuario nao possui acesso ao tenant selecionado")
    /\ ("noMembership" \notin answered.flags /\ "tenantNotActive" \in answered.flags) =>
         answered.resp = Error(403, "O tenant selecionado esta inativo")
    /\ answered.flags = {} =>
         /\ answered.resp.status = 200
         /\ answered.resp.accessToken.sub = answered.userId
         /\ answered.resp.accessToken.tenantId = answered.tenantId
         /\ \E m \in userTenant :
              /\ m.userId = answered.userId /\ m.tenantId = answered.tenantId
              /\ answered.resp.accessToken.role = m.roleId

\* C11 witness: a principal has selected an active tenant it is a member of
C11_Witness ==
  /\ answered.op = "selectTenant" /\ answered.flags = {}
  /\ answered.resp.status = 200
  /\ tenant[answered.tenantId].status = "ACTIVE"

\* C12: a tenant selection, accepted or refused, leaves the sessions, the stored refresh
\* credentials, the revocation entries and the refresh tokens handed out as they were.
C12_SelectTenantLeavesSessionsAlone ==
  [][(\E userId \in Users, tenantId \in Tenants : SelectTenant(userId, tenantId))
       => UNCHANGED <<userSession, user, redisKeys, held>>]_vars

\* C12 witness: a tenant selection has been answered while a session exists
C12_Witness ==
  answered.op = "selectTenant" /\ userSession # {}

\* the revocation status of tokens cannot be confirmed: production profile, Redis not connected
RevocationUnconfirmed ==
  app = "express" /\ nodeEnv = "production" /\ ~isClientConnected

\* C13: while Redis is unreachable in production, no refresh request passes token verification
\* and no request behind the authentication middleware (logout, password change) is accepted.
C13_FailsClosedInProduction ==
  [][RevocationUnconfirmed =>
       /\ ~(\E r \in Reqs, token \in Presentable : RefreshToken(r, token))
       /\ ~(\E userId \in Users, token \in Presentable : Logout(userId, token))
       /\ ~(\E userId \in Users, cur \in Passwords, new \in Passwords :
              ChangePassword(userId, cur, new))]_vars

\* C13 witness: in production with Redis unreachable a refresh with a token that is neither
\* expired nor known to be revoked has been refused
C13_Witness ==
  /\ RevocationUnconfirmed
  /\ answered.op = "refresh" /\ answered.flags = {"unavailable"}
  /\ answered.resp.status = 401

\* C14: a refresh whose revocation check could not be made is answered with a 503-class
\* response, not with the 401 of an invalid or expired token.
C14_UnavailableStoreReportedAs503 ==
  (answered.op = "refresh" /\ "unavailable" \in answered.flags) => answered.resp.status = 503

\* C15: every revocation entry expires exactly when the token it revokes expires.
C15_RevocationTtlIsRemainingValidity ==
  \A e \in redisKeys : e.expireAt = e.key.token.exp

C17_RefreshReturnsNewRefreshToken ==
  \A x \in exchanged : x.new # NoToken /\ x.new # x.old

\* C18: every refresh that is refused (token invalid, expired, revoked, not the stored one,
\* subject missing) is answered with status 401.
C18_RefusedRefreshIs401 ==
  (answered.op = "refresh" /\ answered.resp.status # 200) => answered.resp.status = 401

\* C19: a password change whose current password is wrong, or whose new password equals the
\* current one, is refused.
C19_PasswordChangeRefusesWrongOrSame ==
  (answered.op = "changePassword" /\ answered.flags \cap {"wrongCurrent", "sameAsCurrent"} # {})
    => answered.resp.status \notin {200, 204}

\* C20: in production no session exists when the configured refresh duration cannot be parsed:
\* the service refuses the configuration instead of falling back to a default expiry.
C20_NoSessionWithDefaultExpiryInProduction ==
  (app = "nest" /\ nodeEnv = "production" /\ refreshExpiresIn.unit \notin {"s", "m", "h", "d", "w", "y"})
    => userSession = {}

\* the required configuration is given and well-formed: a secret of 32 characters or more,
\* both token lifetimes in the form <number><unit>, an issuer and an audience
RequiredConfigurationValid(processEnv) ==
  /\ processEnv.JWT_SECRET # Unset /\ SecretLength(processEnv.JWT_SECRET) >= 32
  /\ processEnv.JWT_EXPIRES_IN.unit \in {"s", "m", "h", "d", "w", "y"}
  /\ processEnv.JWT_REFRESH_EXPIRES_IN.unit \in {"s", "m", "h", "d", "w", "y"}
  /\ processEnv.JWT_ISSUER # Unset
  /\ processEnv.JWT_AUDIENCE # Unset

\* C21: in every profile the process serves requests only when the required configuration
\* (signing secret, token lifetimes, issuer, audience) was given and well-formed; otherwise
\* it ends at start-up.
C21_ServesOnlyWithValidConfiguration ==
  startup.phase = "serving" => RequiredConfigurationValid(startup.processEnv)

LoggedOutInFlight(r) ==
  /\ reqs[r].op = "refresh"
  /\ reqs[r].token \in loggedOut
  /\ "loggedOut" \notin reqs[r].flags

\* C23: once a logout has completed, a refresh request of the same token that was in flight
\* when the logout ran neither stores a new refresh token nor completes successfully.
C23_LogoutStopsRefreshInFlight ==
  [][\A r \in Reqs :
       LoggedOutInFlight(r) =>
         /\ ~RefreshUpdate(r)
         /\ ~(RefreshBlacklist(r) /\ answered'.resp.status = 200)]_vars

\* C24: a refresh that ends with an error leaves the stored refresh token as it was before the
\* call: a refused request writes nothing, and after a failure of the blacklist write the user
\* row still holds the token that was presented.
C24_FailedRefreshLeavesStoredToken ==
  [][/\ (\E token \in Presentable : RefreshRejected(token)) => UNCHANGED user
     /\ \A r \in Reqs :
          /\ (RefreshFindUser(r) /\ reqs'[r] = Idle) => UNCHANGED user
          /\ (RefreshBlacklist(r) /\ answered'.resp.status # 200)
               => user'[reqs[r].userId].refreshToken = reqs[r].token]_vars

\* C25: every password change either replaces the password hash and, when a refresh token is
\* stored for the principal, blacklists it and clears it, or ends with an error and changes
\* neither the hash nor the stored refresh token.
C25_PasswordChangeAllOrNothing ==
  [][\A userId \in Users, currentPassword \in Passwords, newPassword \in Passwords :
       ChangePassword(userId, currentPassword, newPassword) =>
         \/ /\ answered'.resp.status = 200
            /\ user'[userId].password = HashPassword(newPassword)
            /\ user'[userId].refreshToken = NoToken
            /\ user[userId].refreshToken # NoToken => user[userId].refreshToken \in blacklisted'
         \/ /\ answered'.resp.status # 200
            /\ UNCHANGED user]_vars

\* C26: a logout authenticated as a principal clears that principal's stored refresh token
\* only when the presented token is the stored one, blacklists the presented token only when
\* its subject is that principal, and (NestJS) deletes only sessions of a principal that a
\* bearer token of the request can authenticate.
C26_LogoutTouchesOnlyOwnSession ==
  [][/\ \A userId \in Users, token \in Presentable :
          (Logout(userId, token) /\ answered'.resp.status = 200) =>
            /\ token.sub = userId
            /\ user'[userId].refreshToken # user[userId].refreshToken
                 => user[userId].refreshToken = token
     /\ \A token \in Presentable :
          NestLogout(token) =>
            \A x \in userSession \ userSession' :
              \E bearer \in heldAccess : nestAuthenticate(bearer) = x.userId]_vars

\* C27: the access token a successful selectTenant returns is accepted by the JWT guard for
\* the principal who selected the tenant, as long as it has not expired and the principal
\* is active.
C27_TenantTokenAcceptedByGuard ==
  (/\ answered.op = "selectTenant"
   /\ answered.resp.status = 200
   /\ now < answered.resp.accessToken.exp
   /\ nestUser[answered.userId].status = "ACTIVE")
    => nestAuthenticate(answered.resp.accessToken) = answered.userId

\* what rules a bearer token out whatever the state of Redis: a bad signature, issuer or
\* audience, a past expiry, a type other than "access", a subject without a row
NotAnAccessCredential == {"badSignature", "badIssuer", "badAudience", "expired", "notAccess", "noSubject"}

\* C28 (as stated): the middleware lets a request through only if the bearer token is not
\* blacklisted, passes verification, has type "access" and its subject exists.
C28_AuthenticateOnlyUnrevokedAccessTokens ==
  (answered.op = "authenticate" /\ answered.userId # NoUser)
    => answered.flags \cap (NotAnAccessCredential \cup {"listed"}) = {}

\* C28 (amended): the middleware lets a request through only if the token passes
\* verification, has type "access", its subject exists, and the revocation check answered
\* "not blacklisted"; a revocation entry exists for an accepted token only where the check
\* is skipped, in development without a Redis connection.
C28_AuthenticateOnlyCheckedAccessTokens ==
  (answered.op = "authenticate" /\ answered.userId # NoUser)
    => /\ answered.flags \cap (NotAnAccessCredential \cup {"revoked", "unavailable"}) = {}
       /\ "listed" \in answered.flags => "unchecked" \in answered.flags

C28_Witness ==
  /\ answered.op = "authenticate"
  /\ answered.userId = "u1"
  /\ answered.flags = {}

\* C29: after a successful logout the access token that authenticated the logout request
\* is no longer accepted by the authenticate middleware.
C29_LogoutRevokesItsAccessToken ==
  [][\A userId \in Users, token \in Presentable, bearer \in heldAccess :
       (Logout(userId, token) /\ authenticate(bearer) = userId /\ answered'.resp.status = 200)
         => authenticate(bearer)' = NoUser]_vars

\* C30: a request is authenticated, and a refresh token is exchanged for a new access
\* token, only for a principal whose row exists with status ACTIVE at that time.
C30_OnlyActivePrincipalsAuthenticateOrRefresh ==
  /\ [](\A bearer \in heldAccess :
         nestAuthenticate(bearer) # NoUser => nestUser[nestAuthenticate(bearer)].status = "ACTIVE")
  /\ [][\A token \in Presentable :
          (NestRefreshTokens(token) /\ answered'.resp.status = 200)
            => nestUser[answered'.userId].status = "ACTIVE"]_vars

\* C31: a login that is rejected (unknown email, account not ACTIVE, wrong password, no tenant
\* membership) writes nothing: the user rows with their stored refresh token and last-login
\* time, the sessions and the Redis keys are as before, and no token is handed out.
C31_RejectedLoginWritesNothing ==
  [][\A email \in Emails, password \in Passwords :
       ((Login(email, password) \/ NestLogin(email, password)) /\ loginOutcome'.resp.status # 200)
         => UNCHANGED <<user, nestUser, userSession, redisKeys, held, heldAccess>>]_vars

\* C31 witness: a login with a wrong password was rejected while the principal has a session
C31_Witness ==
  /\ "wrongPassword" \in loginOutcome.flags
  /\ loginOutcome.resp.status = 401
  /\ \/ app = "express" /\ user[loginOutcome.email].refreshToken # NoToken
     \/ app = "nest" /\ \E x \in userSession : x.userId = loginOutcome.email

\* the value a RedisService operation returns in development when the client is not connected
DisconnectedDefault(operation) ==
  CASE operation = "get" -> Null
    [] operation = "exists" -> "false"
    [] OTHER -> Undefined

\* C32: on a client that is not connected, set and delete return without writing, get returns
\* null and exists returns false in development; in production every one of them throws and
\* none returns a value.
C32_DisconnectedRedisByProfile ==
  [][(answered'.op \in {"set", "get", "delete", "exists"} /\ ops' = ops + 1
        /\ "disconnected" \in answered'.flags)
       => /\ nodeEnv = "development"
             => /\ ~answered'.resp.thrown
                /\ answered'.resp.value = DisconnectedDefault(answered'.op)
                /\ UNCHANGED redisKeys
          /\ nodeEnv = "production" => answered'.resp.thrown /\ UNCHANGED redisKeys]_vars

\* C32 witness: exists was called in production without a connection, and threw
C32_Witness ==
  /\ answered.op = "exists"
  /\ "disconnected" \in answered.flags
  /\ nodeEnv = "production"
  /\ answered.resp.thrown

\* C33: in production the client waits min(n * 500, 3000) ms before the attempt that follows
\* n failed ones, for n up to MAX_RECONNECT_ATTEMPTS, and after more failed attempts than
\* that it stops reconnecting; in development it never reconnects.
C33_ReconnectionGivesUpAfterLimit ==
  /\ (socket.state = "reconnecting" /\ socket.retries <= MAX_RECONNECT_ATTEMPTS)
       => /\ nodeEnv # "development"
          /\ socket.delay = Min(socket.retries * 500, 3000)
  /\ socket.retries > MAX_RECONNECT_ATTEMPTS => socket.state = "closed"
  /\ nodeEnv = "development" => socket.state # "reconnecting"

\* C34: a call of getOrSet invokes fn at most once: not at all when the key holds a value,
\* and otherwise exactly once, returning what that invocation resolved to or rejecting as
\* it rejected.
C34_GetOrSetInvokesFnAtMostOnce ==
  answered.op = "getOrSet"
    => /\ answered.resp.calls <= 1
       /\ "hit" \in answered.flags => answered.resp.calls = 0
       /\ "hit" \notin answered.flags
            => /\ answered.resp.calls = 1
               /\ answered.resp.thrown = answered.resp.first.rejects
               /\ answered.resp.value = answered.resp.first.value

=============================================================================
